---- MODULE Spec2Model ----
(***************************************************************************)
(* Model of the audio mixing servers of Audio_timestamp-NEW.               *)
(*                                                                         *)
(* The repository holds five copies of one express server:                 *)
(*   "fade"    src/beckand/index.js          atrim start:end, fade, submix *)
(*   "fademix" src/unnamed/part_000:390-578  atrim start:end, fade         *)
(*   "first"   src/unnamed/part_000:1-164    volume, atrim duration, delay *)
(*   "trimdl"  src/unnamed/part_000:165-389  as "first", /download trims   *)
(*   "random"  src/unnamed/part_001          random delay, fixed span      *)
(*                                                                         *)
(* JS numbers are kept as integers in thousandths (1.0 is 1000), so        *)
(* seconds are held in milliseconds and 0.5 is 500.  NaN, undefined and    *)
(* strings are kept as tagged records, with the coercions of the language. *)
(***************************************************************************)
EXTENDS Integers, Sequences, FiniteSets, TLC

VARIABLES
    variant,          \* which copy of the server runs
    mainDuration,     \* metadata.format.duration of the main track
    clipCount,        \* backgroundAudioFiles.length / shortAudioFiles.length
    backgroundAudioMetadata, \* the parsed metadata value handed to processAudio
    filterComplex,    \* the filter graph processAudio builds
    compiled,         \* whether the ffprobe callback has built the graph
    fs,               \* the files on disk: path -> content
    now,              \* Date.now()
    preq,             \* the POST /process requests
    dreq              \* the GET /download requests

planVars == <<mainDuration, clipCount, backgroundAudioMetadata, filterComplex, compiled>>
serverVars == <<fs, now, preq, dreq>>
vars == <<variant, planVars, serverVars>>

(***************************************************************************)
(* JS values.                                                              *)
(***************************************************************************)
Undefined == [t |-> "undefined", n |-> 0]
NaN == [t |-> "nan", n |-> 0]
Num(n) == [t |-> "number", n |-> n]
\* a string holding the decimal text of n/1000, e.g. "3"
StrNum(n) == [t |-> "string", n |-> n]
\* a non-empty string that is no number, e.g. "abc"
StrBad == [t |-> "badstring", n |-> 0]
\* the integer literal k of the source
K(k) == Num(k * 1000)

IsNum(v) == v.t = "number"

\* ToNumber: the implicit coercion of the arithmetic operators and Math.min
ToNumber(v) ==
    CASE v.t = "number" -> v
      [] v.t = "string" -> Num(v.n)
      [] OTHER -> NaN

\* parseFloat: the argument is converted to a string and its leading number parsed
parseFloat(v) ==
    CASE v.t = "number" -> v
      [] v.t = "string" -> Num(v.n)
      [] OTHER -> NaN

\* truthiness: undefined, NaN and 0 are falsy, a non-empty string is truthy
Truthy(v) ==
    CASE v.t = "number" -> v.n # 0
      [] v.t = "string" -> TRUE
      [] v.t = "badstring" -> TRUE
      [] OTHER -> FALSE

\* a || b
Or(a, b) == IF Truthy(a) THEN a ELSE b

Arith(a, b, r) ==
    IF IsNum(ToNumber(a)) /\ IsNum(ToNumber(b)) THEN Num(r) ELSE NaN

Add(a, b) == Arith(a, b, ToNumber(a).n + ToNumber(b).n)
Sub(a, b) == Arith(a, b, ToNumber(a).n - ToNumber(b).n)
\* the product of two numbers in thousandths; a whole factor is divided first
MulFixed(x, y) ==
    IF y % 1000 = 0 THEN x * (y \div 1000)
    ELSE IF x % 1000 = 0 THEN (x \div 1000) * y
    ELSE (x * y) \div 1000
Mul(a, b) == Arith(a, b, MulFixed(ToNumber(a).n, ToNumber(b).n))

\* Math.min(a, b): NaN when either argument coerces to NaN
MathMin(a, b) ==
    Arith(a, b, IF ToNumber(a).n <= ToNumber(b).n THEN ToNumber(a).n ELSE ToNumber(b).n)

\* Math.floor
MathFloor(a) == Arith(a, a, (ToNumber(a).n \div 1000) * 1000)

(***************************************************************************)
(* The filter graph.  A chain is one "[ins]stage,stage,...[out]" of        *)
(* filterComplex; a stage is a filter with up to two arguments.            *)
(***************************************************************************)
Src(i) == [p |-> "in", i |-> i]          \* [i:a]
Label(p, i) == [p |-> p, i |-> i]        \* [bg1], [delayed1], [out], ...
Stage(f, a, b, opt) == [f |-> f, a |-> a, b |-> b, opt |-> opt]
Chain(ins, stages, out) == [ins |-> ins, stages |-> stages, out |-> out]

\* a raw metadata entry {timestamp, duration, volume}; a missing field is undefined
Entry(ts, dur, vol) == [timestamp |-> ts, duration |-> dur, volume |-> vol]
EmptyEntry == Entry(Undefined, Undefined, Undefined)
\* a JSON null standing in the list where an entry should be
NullEntry == [timestamp |-> NaN, duration |-> NaN, volume |-> NaN]

\* backgroundAudioMetadata[index] || {} for a value that is not null:
\* an index past the end of a list, and any index of an object or a number,
\* give undefined, and so does a null entry
MetadataAt(md, index) ==
    IF md.kind = "list" /\ index + 1 <= Len(md.val) /\ md.val[index + 1] # NullEntry
    THEN md.val[index + 1]
    ELSE EmptyEntry

\* src/beckand/index.js:106-123, the body of backgroundAudioFiles.forEach
BackgroundChainFade(md, index, main) ==
    LET bgMetadata == MetadataAt(md, index)
        inputIndex == index + 1
        startTime == Or(parseFloat(bgMetadata.timestamp), K(0))
        volume == MathMin(Or(bgMetadata.volume, K(1)), K(1))
        specifiedDuration == Or(parseFloat(bgMetadata.duration), Sub(main, startTime))
        endTime == MathMin(Add(startTime, specifiedDuration), main)
        delay == Mul(startTime, K(1000))
    IN << Chain(<<Src(inputIndex)>>,
                << Stage("atrim", startTime, endTime, ""),
                   Stage("asetpts", Undefined, Undefined, "PTS-STARTPTS"),
                   Stage("volume", volume, Undefined, ""),
                   Stage("afade", Sub(Sub(endTime, startTime), Num(500)), Num(500), "t=out") >>,
                Label("bg", inputIndex)),
          Chain(<<Label("bg", inputIndex)>>,
                << Stage("adelay", delay, delay, "") >>,
                Label("delayedbg", inputIndex)) >>

\* src/unnamed/part_000:106-119, the body of backgroundAudioFiles.forEach
BackgroundChainFirst(md, index, main) ==
    LET metadata == MetadataAt(md, index)
        inputIndex == index + 1
        delay == Mul(Or(metadata.timestamp, K(0)), K(1000))
        volume == MathMin(Or(metadata.volume, K(1)), K(1))
        duration == MathMin(Or(metadata.duration, main),
                            Sub(main, Or(metadata.timestamp, K(0))))
    IN << Chain(<<Src(inputIndex)>>,
                << Stage("volume", volume, Undefined, ""),
                   Stage("atrim_duration", duration, Undefined, ""),
                   Stage("asetpts", Undefined, Undefined, "PTS-STARTPTS"),
                   Stage("adelay", delay, delay, "") >>,
                Label("delayed", inputIndex)) >>

\* src/unnamed/part_001:116-128, the body of shortAudioFiles.forEach;
\* random is the value Math.random() returned
ShortChainRandom(random, index, main) ==
    LET inputIndex == index + 1
        delay == Mul(MathFloor(Mul(random, Sub(main, K(4)))), K(1000))
    IN << Chain(<<Src(inputIndex)>>,
                << Stage("volume", Num(400), Undefined, ""),
                   Stage("atrim_duration", K(4), Undefined, ""),
                   Stage("asetpts", Undefined, Undefined, "PTS-STARTPTS"),
                   Stage("adelay", delay, delay, "") >>,
                Label("delayed", inputIndex)) >>

RECURSIVE ForEachChain(_, _, _, _, _, _)
\* the chains of clips index .. count-1, in the order forEach visits them
ForEachChain(v, md, rs, main, index, count) ==
    IF index >= count THEN <<>>
    ELSE (CASE v \in {"fade", "fademix"} -> BackgroundChainFade(md, index, main)
            [] v = "first" -> BackgroundChainFirst(md, index, main)
            [] OTHER -> ShortChainRandom(rs[index + 1], index, main))
         \o ForEachChain(v, md, rs, main, index + 1, count)

\* one naming of the mix inputs for every copy
MixLabelPlain(v, index) == Label("delayed", index + 1)

\* the labels pushed to the mix list, one per clip
MixLabel(v, index) ==
    IF v \in {"fade", "fademix"} THEN Label("delayedbg", index + 1)
    ELSE Label("delayed", index + 1)

MixInputs(v, count) == [k \in 1..count |-> MixLabel(v, k - 1)]

\* src/beckand/index.js:125-134: the background submix, then main over it
MixFade(count) ==
    IF count > 0
    THEN << Chain(MixInputs("fade", count),
                  << Stage("amix", K(count), Undefined, "dropout_transition=0") >>,
                  Label("bgmix", 0)),
            Chain(<<Src(0)>>, << Stage("volume", K(1), Undefined, "") >>, Label("main", 0)),
            Chain(<<Label("main", 0), Label("bgmix", 0)>>,
                  << Stage("amix", K(2), Undefined, "normalize=0") >>,
                  Label("out", 0)) >>
    ELSE << Chain(<<Src(0)>>, << Stage("volume", K(1), Undefined, "") >>, Label("out", 0)) >>

\* src/unnamed/part_000:495-497 and 523: main through volume=1, one amix of all
MainFadeMix == << Chain(<<Src(0)>>, << Stage("volume", K(1), Undefined, "") >>,
                        Label("mainAudio", 0)) >>

MixFadeMix(count) ==
    << Chain(<<Label("mainAudio", 0)>> \o MixInputs("fademix", count),
             << Stage("amix", K(count + 1), Undefined, "dropout_transition=0"),
                Stage("aformat", Undefined, Undefined,
                      "sample_fmts=fltp:sample_rates=44100:channel_layouts=stereo") >>,
             Label("out", 0)) >>

\* a mix of the same inputs that runs as long as its longest input, untrimmed
MixLongestUntrimmed(count, main) ==
    << Chain(<<Src(0)>> \o MixInputs("first", count),
             << Stage("amix", K(count + 1), Undefined, "duration=longest") >>,
             Label("out", 0)) >>

\* src/unnamed/part_000:122: amix duration=first, then atrim to mainDuration
MixFirst(count, main) ==
    << Chain(<<Src(0)>> \o MixInputs("first", count),
             << Stage("amix", K(count + 1), Undefined, "duration=first"),
                Stage("atrim_duration", main, Undefined, "") >>,
             Label("out", 0)) >>

\* src/unnamed/part_001:131: amix duration=longest
MixRandom(count) ==
    << Chain(<<Src(0)>> \o MixInputs("random", count),
             << Stage("amix", K(count + 1), Undefined, "duration=longest") >>,
             Label("out", 0)) >>

\* the filterComplex array the ffprobe callback of processAudio builds
BuildFilterComplex(v, md, rs, main, count) ==
    CASE v = "fade" -> ForEachChain(v, md, rs, main, 0, count) \o MixFade(count)
      [] v = "fademix" ->
            MainFadeMix \o ForEachChain(v, md, rs, main, 0, count) \o MixFadeMix(count)
      [] v = "first" -> ForEachChain(v, md, rs, main, 0, count) \o MixFirst(count, main)
      [] OTHER -> ForEachChain(v, md, rs, main, 0, count) \o MixRandom(count)

(***************************************************************************)
(* Inputs of the plan construction.                                        *)
(***************************************************************************)
\* most auxiliary clips of one request (multer allows up to 10)
MaxClips == 2

PlanVariants == {"fade", "fademix", "first", "random"}

\* metadata.format.duration of the main track: 2.5 s, 10 s, 30 s
MainDurations == {Num(2500), K(10), K(30)}

\* values Math.random() may return, all in [0, 1)
RandomDraws == {Num(0), Num(250), Num(500), Num(999)}

\* raw entries of the metadata list: defaults, the usual case, negative numbers,
\* timestamps at and past the end of the main track, numbers in strings, junk
RawEntries ==
    { EmptyEntry,
      Entry(K(5), K(3), Num(500)),
      Entry(K(0 - 2), Undefined, Undefined),
      Entry(K(10), K(3), Undefined),
      Entry(K(12), Undefined, Undefined),
      Entry(Undefined, K(20), Undefined),
      Entry(Undefined, K(0 - 1), Undefined),
      Entry(Undefined, Undefined, Num(0 - 500)),
      Entry(Undefined, Undefined, K(0)),
      Entry(Undefined, Undefined, Num(1500)),
      Entry(StrNum(3000), StrNum(2000), StrNum(500)),
      Entry(StrBad, Undefined, Undefined),
      NullEntry }

SeqsUpTo(S, n) == UNION { [1..k -> S] : k \in 0..n }

\* what JSON.parse can hand to processAudio: a list, an object or number
\* (no entries to index), or null
MetadataList(val) == [kind |-> "list", val |-> val]
MetadataObject == [kind |-> "object", val |-> <<>>]
MetadataNull == [kind |-> "null", val |-> <<>>]
ParsedMetadata ==
    { MetadataList(val) : val \in SeqsUpTo(RawEntries, MaxClips) }
        \cup {MetadataObject, MetadataNull}

InitPlan ==
    /\ variant \in PlanVariants
    /\ mainDuration \in MainDurations
    /\ clipCount \in 0..MaxClips    \* processAudio also takes an empty array
    /\ backgroundAudioMetadata \in
          IF variant = "random" THEN {MetadataList(<<>>)} ELSE ParsedMetadata
    /\ filterComplex = <<>>
    /\ compiled = "no"
    /\ fs = <<>>
    /\ now = 0
    /\ preq = <<>>
    /\ dreq = <<>>

\* what Math.random() may return to a run of copy v, one value per clip;
\* the other copies never call it
Draws(v, count) == [1..count -> IF v = "random" THEN RandomDraws ELSE {Num(0)}]

\* the ffprobe callback of processAudio up to the start of the render:
\* src/beckand/index.js:103-134
CompilePlan ==
    /\ compiled = "no"
    /\ (backgroundAudioMetadata.kind # "null" \/ clipCount = 0)
    /\ \E rs \in Draws(variant, clipCount) :
          filterComplex' = BuildFilterComplex(variant, backgroundAudioMetadata, rs,
                                              mainDuration, clipCount)
    /\ compiled' = "yes"
    /\ UNCHANGED <<variant, mainDuration, clipCount, backgroundAudioMetadata, serverVars>>

\* backgroundAudioMetadata[index] of null throws inside the ffprobe callback,
\* at the first clip: no graph is built and the promise is never settled
CompileThrows ==
    /\ compiled = "no"
    /\ backgroundAudioMetadata.kind = "null"
    /\ clipCount > 0
    /\ compiled' = "threw"
    /\ UNCHANGED <<variant, mainDuration, clipCount, backgroundAudioMetadata, filterComplex,
                   serverVars>>

NextPlan == CompilePlan \/ CompileThrows

SpecPlan == InitPlan /\ [][NextPlan]_vars

(***************************************************************************)
(* The placement a clip's chain applies, read back from the graph.         *)
(***************************************************************************)
\* the stages applied to source i: its chain, then the chain fed by its label
ClipStages(fc, i) ==
    LET first == CHOOSE c \in {fc[k] : k \in 1..Len(fc)} : c.ins = <<Src(i)>>
        rest == {fc[k] : k \in 1..Len(fc)}
        follow == {c \in rest : c.ins = <<first.out>>}
    IN first.stages \o (IF follow = {} THEN <<>> ELSE (CHOOSE c \in follow : TRUE).stages)

StageOf(stages, f) == stages[CHOOSE k \in 1..Len(stages) : stages[k].f = f]
HasStage(stages, f) == \E k \in 1..Len(stages) : stages[k].f = f

\* the delay of the clip in seconds (adelay is in milliseconds)
StartOffset(fc, i) ==
    LET d == StageOf(ClipStages(fc, i), "adelay").a
    IN IF IsNum(d) THEN Num(d.n \div 1000) ELSE NaN

\* the length of the trim of the clip in seconds
Span(fc, i) ==
    LET st == ClipStages(fc, i)
    IN IF HasStage(st, "atrim")
       THEN Sub(StageOf(st, "atrim").b, StageOf(st, "atrim").a)
       ELSE StageOf(st, "atrim_duration").a

Gain(fc, i) == StageOf(ClipStages(fc, i), "volume").a

\* a <= b on JS numbers: false when either is NaN
LessEq(a, b) == IsNum(a) /\ IsNum(b) /\ a.n <= b.n
Less(a, b) == IsNum(a) /\ IsNum(b) /\ a.n < b.n

Clips == 1..clipCount

\* C1: every resolved placement ends inside the main track:
\* startOffset + span <= mainDuration + tolerance (10 ms), for every clip.
C1_PlacementWithinMain ==
    compiled = "yes" =>
        \A i \in Clips :
            LessEq(Add(StartOffset(filterComplex, i), Span(filterComplex, i)),
                   Add(mainDuration, Num(10)))

\* C2: every resolved placement has startOffset >= 0, span > 0 and
\* startOffset <= mainDuration.
C2_OffsetAndSpanPositive ==
    compiled = "yes" =>
        \A i \in Clips :
            /\ LessEq(K(0), StartOffset(filterComplex, i))
            /\ Less(K(0), Span(filterComplex, i))
            /\ LessEq(StartOffset(filterComplex, i), mainDuration)

\* C3: the gain written into the plan lies in (0, 1] for every clip.
C3_GainInUnitInterval ==
    compiled = "yes" =>
        \A i \in Clips :
            /\ Less(K(0), Gain(filterComplex, i))
            /\ LessEq(Gain(filterComplex, i), K(1))

(***************************************************************************)
(* The length of the streams of a graph, as ffmpeg runs the filters.       *)
(***************************************************************************)
\* lengths the uploaded clip files may have: 2 s, 40 s
ClipLengths == {K(2), K(40)}

\* the longer of two lengths
Longer(a, b) ==
    Arith(a, b, IF ToNumber(a).n >= ToNumber(b).n THEN ToNumber(a).n ELSE ToNumber(b).n)

RECURSIVE Longest(_)
Longest(ins) == IF Len(ins) = 1 THEN ins[1] ELSE Longer(ins[1], Longest(Tail(ins)))

\* the length of the stream one filter puts out, from the lengths of its inputs:
\* amix runs as long as its first input under duration=first and as long as
\* the longest otherwise; atrim keeps start..end or the first `duration`
\* seconds; adelay (milliseconds) puts silence in front; the others keep it
StageLen(s, ins) ==
    CASE s.f = "amix" -> IF s.opt = "duration=first" THEN ins[1] ELSE Longest(ins)
      [] s.f = "atrim" ->
            Longer(K(0), Sub(MathMin(ins[1], s.b), Longer(K(0), s.a)))
      [] s.f = "atrim_duration" -> MathMin(ins[1], s.a)
      [] s.f = "adelay" ->
            Add(ins[1], IF IsNum(s.a) THEN Num(s.a.n \div 1000) ELSE NaN)
      [] OTHER -> ins[1]

RECURSIVE StagesLen(_, _)
\* the stages of a chain, left to right
StagesLen(stages, ins) ==
    IF stages = <<>> THEN ins[1]
    ELSE StagesLen(Tail(stages), << StageLen(Head(stages), ins) >>)

RECURSIVE StreamLen(_, _, _, _)
\* [0:a] is the main track, [i:a] clip i, a label the chain that writes it
StreamLen(fc, ref, main, lens) ==
    IF ref.p = "in" THEN (IF ref.i = 0 THEN main ELSE lens[ref.i])
    ELSE LET c == CHOOSE c \in {fc[k] : k \in 1..Len(fc)} : c.out = ref
         IN StagesLen(c.stages,
                      [k \in 1..Len(c.ins) |-> StreamLen(fc, c.ins[k], main, lens)])

\* the length of [out], the stream .complexFilter(filterComplex, 'out') maps
OutputDuration(fc, main, lens) == StreamLen(fc, Label("out", 0), main, lens)

\* the chain that writes [out]
OutChain(fc) == CHOOSE c \in {fc[k] : k \in 1..Len(fc)} : c.out = Label("out", 0)

\* the copy whose mix is written for the length of the main track
MatchMain(v) == v = "first"

\* C11: under the matchMain policy the mix takes the duration of its first
\* input, the main track, a trailing trim to mainDuration follows it, and the
\* output is exactly mainDuration long for every list of clips, the empty one too.
C11_MatchMainOutputDuration ==
    (MatchMain(variant) /\ compiled = "yes") =>
        LET mix == OutChain(filterComplex)
        IN /\ mix.ins[1] = Src(0)
           /\ mix.stages[1].f = "amix" /\ mix.stages[1].opt = "duration=first"
           /\ mix.stages[Len(mix.stages)] = Stage("atrim_duration", mainDuration, Undefined, "")
           /\ \A lens \in [1..clipCount -> ClipLengths] :
                 OutputDuration(filterComplex, mainDuration, lens) = mainDuration

\* a compiled matchMain plan with a clip that starts inside the main track and
\* whose file runs past its end
C11_Witness ==
    /\ MatchMain(variant) /\ compiled = "yes" /\ clipCount >= 1
    /\ StartOffset(filterComplex, 1) = K(5)
    /\ mainDuration = K(10)

(***************************************************************************)
(* The shape of the per-clip chains and of the mix.                        *)
(***************************************************************************)
\* what a filter of a clip's chain does; asetpts only resets the timestamps
StageKind(f) ==
    CASE f \in {"atrim", "atrim_duration"} -> "trim"
      [] f = "volume" -> "gain"
      [] f = "afade" -> "fade"
      [] f = "adelay" -> "delay"
      [] OTHER -> "other"

\* the place of a stage in the order trim, gain, fade, delay
StageRank(f) ==
    CASE StageKind(f) = "trim" -> 1
      [] StageKind(f) = "gain" -> 2
      [] StageKind(f) = "fade" -> 3
      [] StageKind(f) = "delay" -> 4
      [] OTHER -> 0

InOrder(stages) ==
    \A j, k \in 1..Len(stages) :
        (j < k /\ StageRank(stages[j].f) > 0 /\ StageRank(stages[k].f) > 0)
            => StageRank(stages[j].f) < StageRank(stages[k].f)

\* adelay=a|b delays the first channel by a and the second by b
DelayLastAndEqual(stages) ==
    LET last == stages[Len(stages)]
    IN /\ last.f = "adelay"
       /\ last.a = last.b
       /\ HasStage(stages, "atrim") => last.a = Mul(StageOf(stages, "atrim").a, K(1000))

\* C12: in every per-clip chain the stages come in the order trim, gain, fade,
\* delay; the delay is the last stage and is startOffset * 1000 ms on every channel.
C12_StageOrder ==
    compiled = "yes" =>
        \A i \in Clips :
            /\ InOrder(ClipStages(filterComplex, i))
            /\ DelayLastAndEqual(ClipStages(filterComplex, i))

\* the chains of the graph that mix: their first filter is amix
MixOps(fc) == {k \in 1..Len(fc) : fc[k].stages[1].f = "amix"}

\* the label the chain of source i ends in
TerminalLabel(fc, i) ==
    LET first == CHOOSE c \in {fc[k] : k \in 1..Len(fc)} : c.ins = <<Src(i)>>
        follow == {c \in {fc[k] : k \in 1..Len(fc)} :
                      c.ins = <<first.out>> /\ c.stages[1].f # "amix"}
    IN IF follow = {} THEN first.out ELSE (CHOOSE c \in follow : TRUE).out

\* [0:a] itself, or the label of a chain that only passes [0:a] through filters
IsMainTrack(fc, ref) ==
    \/ ref = Src(0)
    \/ \E k \in 1..Len(fc) :
          fc[k].out = ref /\ fc[k].ins = <<Src(0)>> /\ fc[k].stages[1].f # "amix"

\* C13: after the per-clip chains the plan has exactly one mix, whose inputs are
\* the main track and then the terminal label of every clip chain in ascending
\* source order: N + 1 inputs for N clips.
C13_SingleMix ==
    compiled = "yes" =>
        /\ MixOps(filterComplex) = {Len(filterComplex)}
        /\ LET mix == filterComplex[Len(filterComplex)]
           IN /\ Len(mix.ins) = clipCount + 1
              /\ IsMainTrack(filterComplex, mix.ins[1])
              /\ \A i \in Clips : mix.ins[i + 1] = TerminalLabel(filterComplex, i)

\* C15: plan construction is deterministic: any second run with the same main
\* duration, clips and metadata builds the identical sequence of graph
\* operations, under the randomized placement as well.
C15_Deterministic ==
    compiled = "yes" =>
        \A rs \in Draws(variant, clipCount) :
            BuildFilterComplex(variant, backgroundAudioMetadata, rs, mainDuration, clipCount)
                = filterComplex

\* the inputs given to the ffmpeg command, in the order of the .input() calls:
\* the main file, then the clips; [i:a] is the i-th of them, counted from 0
CommandInputs(count) == [k \in 1..(count + 1) |-> IF k = 1 THEN "main" ELSE "clip"]

\* the labels written by the chains in front of chain k
ProducedBefore(fc, k) == {fc[j].out : j \in 1..(k - 1)}

\* every reference some chain reads
Consumed(fc) == UNION { {fc[k].ins[n] : n \in 1..Len(fc[k].ins)} : k \in 1..Len(fc) }

\* C19: in every plan that is built, each input reference of an operation is a
\* raw source index (0 the main track, i + 1 auxiliary clip i, in the order the
\* inputs are given to the render) or a label produced by an earlier operation,
\* and exactly one label, 'out', is produced that no operation consumes.
C19_WellFormedReferences ==
    compiled = "yes" =>
        /\ \A k \in 1..Len(filterComplex) : \A n \in 1..Len(filterComplex[k].ins) :
              LET ref == filterComplex[k].ins[n]
              IN IF ref.p = "in"
                 THEN /\ ref.i + 1 \in DOMAIN CommandInputs(clipCount)
                      /\ CommandInputs(clipCount)[ref.i + 1] = (IF ref.i = 0 THEN "main" ELSE "clip")
                 ELSE ref \in ProducedBefore(filterComplex, k)
        /\ \A j, k \in 1..Len(filterComplex) :
              j # k => filterComplex[j].out # filterComplex[k].out
        /\ {filterComplex[k].out : k \in 1..Len(filterComplex)} \ Consumed(filterComplex)
              = {Label("out", 0)}

\* a compiled plan of the sub-mixing copy for two clips: labels feed labels
C19_Witness ==
    /\ compiled = "yes" /\ variant = "fade" /\ clipCount = 2
    /\ Label("bgmix", 0) \in Consumed(filterComplex)
    /\ Src(2) \in Consumed(filterComplex)

(***************************************************************************)
(* The servers: files, requests.                                           *)
(***************************************************************************)
\* most POST /process requests, GET /download requests, clock ticks
MaxProcess == 2
MaxDownload == 1
MaxClock == 1

uploadsDir == "uploads"
publicDir == "public"
outputDir == "output"

\* a file name: text n, then (when stamped) the time t, then "." and ext
FileName(n, t, ext) == [n |-> n, t |-> t, ext |-> ext]
NoFile == FileName("", 0, "")
\* path.join(dir, name)
Path(dir, name) == [dir |-> dir, name |-> name]
NoPath == Path("", NoFile)

\* the content of a file: written whole ("complete") or not ("partial": being
\* written, left unfinished, or written by two processes at once); by is the
\* request that wrote it, writers the processes that have it open for writing
File(st, by, writers, dur) == [st |-> st, by |-> by, writers |-> writers, dur |-> dur]

Exists(p) == p \in DOMAIN fs
\* fs with path p holding content c
WriteFile(f, p, c) == [q \in DOMAIN f \cup {p} |-> IF q = p THEN c ELSE f[q]]
\* fs.unlink of every path in ps
Unlink(f, ps) == [q \in DOMAIN f \ ps |-> f[q]]

\* a process opens p for writing (truncating it)
OpenForWrite(f, p, r) ==
    WriteFile(f, p,
        IF p \in DOMAIN f /\ f[p].writers # {}
        THEN File("partial", 0, f[p].writers \cup {r}, 0)
        ELSE File("partial", r, {r}, 0))

\* the process of request r ends a successful write of p with duration dur;
\* a path that was unlinked meanwhile stays absent
CloseAfterWrite(f, p, r, dur) ==
    IF p \notin DOMAIN f \/ r \notin f[p].writers THEN f
    ELSE WriteFile(f, p,
            IF f[p].by = r /\ f[p].writers = {r}
            THEN File("complete", r, {}, dur)
            ELSE File("partial", f[p].by, f[p].writers \ {r}, 0))

\* the process of request r stops writing p after a failure
AbandonWrite(f, p, r) ==
    IF p \notin DOMAIN f \/ r \notin f[p].writers THEN f
    ELSE WriteFile(f, p, File("partial", f[p].by, f[p].writers \ {r}, 0))

\* names callers give their main file, and the one name of their clips
OriginalNames == {FileName("a", 0, "aac"), FileName("a", 0, "mp3")}
ClipName == FileName("clip", 0, "aac")
UploadClipCounts == {0, 1}

\* multer filename of src/beckand/index.js:32-34: file.originalname
StoredNameOriginal(fieldname, t, originalname) == originalname
\* multer filename of src/unnamed/part_001:32-34:
\* file.fieldname + '-' + Date.now() + path.extname(file.originalname)
StoredNameStamped(fieldname, t, originalname) == FileName(fieldname, t, originalname.ext)
StoredName(v, fieldname, t, originalname) ==
    IF v = "random" THEN StoredNameStamped(fieldname, t, originalname)
    ELSE StoredNameOriginal(fieldname, t, originalname)

\* src/beckand/index.js:49 and 63: path.parse(originalname).name + '.aac'
OutputFileNameOriginal(originalname, t) == FileName(originalname.n, 0, "aac")
\* src/unnamed/part_001:49: `output_${Date.now()}.aac`
OutputFileNameStamped(originalname, t) == FileName("output_", t, "aac")
OutputFileName(v, originalname, t) ==
    IF v = "random" THEN OutputFileNameStamped(originalname, t)
    ELSE OutputFileNameOriginal(originalname, t)

\* req.body.backgroundAudioMetadata: absent, text that is no JSON, the text of a
\* list, of an object, of null
Bodies(v) == IF v = "random" THEN {"absent"} ELSE {"absent", "malformed", "list", "object", "null"}

\* JSON.parse throws on text that is no JSON
JSONParseThrows(body) == body = "malformed"
JSONParse(body) ==
    CASE body = "list" -> MetadataList(<<Entry(K(5), K(3), Num(500))>>)
      [] body = "object" -> MetadataObject
      [] OTHER -> MetadataNull

\* the value of backgroundAudioMetadata after src/beckand/index.js:51-59
ParsedBody(body) == IF body = "absent" THEN MetadataList(<<>>) ELSE JSONParse(body)

\* the processAudio of the server copy
PlanVariant(v) == IF v = "trimdl" THEN "first" ELSE v

IdleProcess ==
    [ phase |-> "idle", main |-> NoFile, clips |-> 0, body |-> "absent",
      mainPath |-> NoPath, clipPaths |-> <<>>, outputPath |-> NoPath,
      metadata |-> MetadataList(<<>>), filter |-> <<>>, status |-> 0, renders |-> 0,
      error |-> "" ]

IdleDownload ==
    [ phase |-> "idle", filename |-> NoFile, mainAudio |-> NoFile, status |-> 0,
      body |-> "", sent |-> NoPath, got |-> "none", gotDuration |-> 0,
      missing |-> "none", probed |-> FALSE, originalDuration |-> 0, referenceDuration |-> 0,
      trimmedPath |-> NoPath, trimInput |-> NoPath, trimStart |-> 0, trimTo |-> 0 ]

ProcessIds == 1..MaxProcess
DownloadIds == 1..MaxDownload

\* a promise settles once: the first resolve or reject decides the response
Settle(req, code) == IF req.status = 0 THEN code ELSE req.status

\* the err.message the .catch of the handler puts into the 500 response:
\* 'Error processing audio: ' + err.message, of the first rejection
SettleError(req, message) == IF req.status = 0 THEN message ELSE req.error

\* requests arrive in the order of their ids
MayArrive(reqs, r) ==
    reqs[r].phase = "idle" /\ (IF r = 1 THEN TRUE ELSE reqs[r - 1].phase # "idle")

\* multer stores the files of a request (src/beckand/index.js:28-42);
\* in the stamped copy the clock may advance between two files
Upload(r) ==
    /\ MayArrive(preq, r)
    /\ \E main \in OriginalNames \cup {NoFile}, clips \in UploadClipCounts,
          body \in Bodies(variant), t \in now..MaxClock :
          LET mainPath == IF main = NoFile THEN NoPath
                          ELSE Path(uploadsDir, StoredName(variant, "mainAudio", now, main))
              clipField == IF variant = "random" THEN "shortAudios" ELSE "backgroundAudios"
              clipPaths == [k \in 1..clips |->
                              Path(uploadsDir, StoredName(variant, clipField, t, ClipName))]
              stored == ({mainPath} \cup {clipPaths[k] : k \in 1..clips}) \ {NoPath}
          IN /\ variant # "random" => t = now
             /\ fs' = [q \in DOMAIN fs \cup stored |->
                          IF q \in stored THEN File("complete", r, {}, 0) ELSE fs[q]]
             /\ now' = t
             /\ preq' = [preq EXCEPT ![r] =
                            [@ EXCEPT !.phase = "uploaded", !.main = main, !.clips = clips,
                                      !.body = body, !.mainPath = mainPath,
                                      !.clipPaths = clipPaths]]
    /\ UNCHANGED <<variant, planVars, dreq>>

\* the handler of POST /process up to the call of processAudio, and processAudio
\* up to its call of ffprobe: src/beckand/index.js:42-96, src/unnamed/part_001:42-105
Handle(r) ==
    /\ preq[r].phase = "uploaded"
    /\ LET q == preq[r]
           outputPath == Path(publicDir, OutputFileName(variant, q.main, now))
           started == [q EXCEPT !.outputPath = outputPath, !.metadata = ParsedBody(q.body)]
       IN preq' = [preq EXCEPT ![r] =
            IF q.main = NoFile \/ q.clips = 0
            THEN [q EXCEPT !.phase = "rejected", !.status = 400]
            ELSE IF variant # "random" /\ JSONParseThrows(q.body)
            THEN [q EXCEPT !.phase = "rejected", !.status = 400]
            ELSE IF variant = "random" /\ ~Exists(q.mainPath)
            THEN [started EXCEPT !.phase = "failed", !.status = 500,
                                 !.error = "Main audio file not found"]
            ELSE IF variant = "random" /\ \E k \in 1..q.clips : ~Exists(q.clipPaths[k])
            THEN [started EXCEPT !.phase = "probing", !.status = 500,
                                 !.error = "Short audio file not found"]
            ELSE [started EXCEPT !.phase = "probing"]]
    /\ UNCHANGED <<variant, planVars, fs, now, dreq>>

\* the ffprobe callback with an error: src/beckand/index.js:97-101
ProbeError(r) ==
    /\ preq[r].phase = "probing"
    /\ preq' = [preq EXCEPT ![r] =
                  [@ EXCEPT !.phase = "failed", !.status = Settle(preq[r], 500),
                            !.error = SettleError(preq[r], "ffprobe error")]]
    /\ UNCHANGED <<variant, planVars, fs, now, dreq>>

\* the duration ffprobe reports for an uploaded main file, and the value
\* Math.random() returns, in the runs of the servers
ProbedDurations == {K(10)}
ServerDraws == {Num(500)}

\* the ffprobe callback without error: the graph is built and ffmpeg is started
\* (src/beckand/index.js:103-154); indexing null metadata throws before that
ProbeDone(r) ==
    /\ preq[r].phase = "probing"
    /\ Exists(preq[r].mainPath)
    /\ \E main \in ProbedDurations,
          rs \in [1..preq[r].clips -> ServerDraws] :
          preq' = [preq EXCEPT ![r] =
                      IF preq[r].metadata.kind = "null"
                      THEN [@ EXCEPT !.phase = "threw"]
                      ELSE [@ EXCEPT !.phase = "rendering",
                                     !.renders = @ + 1,
                                     !.filter = BuildFilterComplex(PlanVariant(variant),
                                                   preq[r].metadata, rs, main, preq[r].clips)]]
    /\ UNCHANGED <<variant, planVars, fs, now, dreq>>

InputPaths(q) == {q.mainPath} \cup {q.clipPaths[k] : k \in 1..q.clips}

\* ffmpeg has opened its inputs and creates the output file at outputPath
RenderOpen(r) ==
    /\ preq[r].phase = "rendering"
    /\ \A p \in InputPaths(preq[r]) : Exists(p)
    /\ fs' = OpenForWrite(fs, preq[r].outputPath, r)
    /\ preq' = [preq EXCEPT ![r] = [@ EXCEPT !.phase = "writing"]]
    /\ UNCHANGED <<variant, planVars, now, dreq>>

\* the paths the .then of src/unnamed/part_001:57-68 unlinks
CleanedUp(v, q) == IF v = "random" /\ q.status = 0 THEN InputPaths(q) ELSE {}

\* 'end': the promise resolves, the handler answers 200 (and the stamped copy
\* unlinks the inputs): src/beckand/index.js:67-71 and 147
RenderEnd(r) ==
    /\ preq[r].phase = "writing"
    /\ fs' = Unlink(CloseAfterWrite(fs, preq[r].outputPath, r, 0), CleanedUp(variant, preq[r]))
    /\ preq' = [preq EXCEPT ![r] =
                  [@ EXCEPT !.phase = "done", !.status = Settle(preq[r], 200), !.filter = <<>>]]
    /\ UNCHANGED <<variant, planVars, now, dreq>>

\* an 'error' handler that starts ffmpeg once more on the same request
RenderErrorRetry(r) ==
    /\ preq[r].phase \in {"rendering", "writing"}
    /\ preq[r].renders < 3
    /\ fs' = AbandonWrite(fs, preq[r].outputPath, r)
    /\ preq' = [preq EXCEPT ![r] = [@ EXCEPT !.phase = "rendering", !.renders = @ + 1]]
    /\ UNCHANGED <<variant, planVars, now, dreq>>

\* 'error': the promise rejects, the handler answers 500; what ffmpeg wrote
\* stays where it is: src/beckand/index.js:72-75 and 148-153
RenderError(r) ==
    /\ preq[r].phase \in {"rendering", "writing"}
    /\ fs' = AbandonWrite(fs, preq[r].outputPath, r)
    /\ preq' = [preq EXCEPT ![r] =
                  [@ EXCEPT !.phase = "failed", !.status = Settle(preq[r], 500),
                            !.error = SettleError(preq[r], "ffmpeg error"),
                            !.filter = <<>>]]
    /\ UNCHANGED <<variant, planVars, now, dreq>>

\* Date.now() advances
Tick ==
    /\ variant = "random"
    /\ now < MaxClock
    /\ now' = now + 1
    /\ UNCHANGED <<variant, planVars, fs, preq, dreq>>

\* names a caller may ask /download for: an output name handed out, or another
DownloadNames ==
    {preq[r].outputPath.name : r \in {x \in ProcessIds : preq[x].outputPath # NoPath}}
        \cup {FileName("missing", 0, "aac")}

\* GET /download/:filename of src/beckand/index.js:178-185: res.download sends
\* what is at the path now, and its callback answers 404 when that fails
Download(d) ==
    /\ MayArrive(dreq, d)
    /\ \E name \in DownloadNames :
          LET filePath == Path(publicDir, name)
          IN dreq' = [dreq EXCEPT ![d] =
                IF Exists(filePath)
                THEN [@ EXCEPT !.phase = "done", !.filename = name, !.status = 200,
                               !.sent = filePath, !.got = fs[filePath].st]
                ELSE [@ EXCEPT !.phase = "done", !.filename = name, !.status = 404,
                               !.body = "File not found"]]
    /\ UNCHANGED <<variant, planVars, fs, now, preq>>

InitProcess ==
    /\ variant \in {"fade", "random"}
    /\ mainDuration = K(0)
    /\ clipCount = 0
    /\ backgroundAudioMetadata = MetadataList(<<>>)
    /\ filterComplex = <<>>
    /\ compiled = "no"
    /\ fs = <<>>
    /\ now = 0
    /\ preq = [r \in ProcessIds |-> IdleProcess]
    /\ dreq = [d \in DownloadIds |-> IdleDownload]

NextProcess ==
    \/ \E r \in ProcessIds : Upload(r)
    \/ \E r \in ProcessIds : Handle(r)
    \/ \E r \in ProcessIds : ProbeError(r)
    \/ \E r \in ProcessIds : ProbeDone(r)
    \/ \E r \in ProcessIds : RenderOpen(r)
    \/ \E r \in ProcessIds : RenderEnd(r)
    \/ \E r \in ProcessIds : RenderError(r)
    \/ \E d \in DownloadIds : Download(d)
    \/ Tick

SpecProcess == InitProcess /\ [][NextProcess]_vars

\* metadata text that does not parse as a list
NotAList(body) == body \in {"malformed", "object", "null"}

\* C4: a /process request whose metadata cannot be parsed as a list is rejected
\* with a 4xx response and processAudio is never started for it.
C4_BadMetadataRejected ==
    \A r \in ProcessIds :
        (NotAList(preq[r].body) /\ preq[r].phase \notin {"idle", "uploaded"})
            => (preq[r].phase = "rejected" /\ preq[r].status \in 400..499)

\* a request that has its output path and has not been answered
InFlight(q) == q.phase \in {"probing", "rendering", "writing"} /\ q.status = 0

\* C6: two /process requests in flight at the same time never have the same
\* output artifact path, nor a stored input path in common.
C6_DistinctPathsInFlight ==
    \A r1, r2 \in ProcessIds :
        (r1 # r2 /\ InFlight(preq[r1]) /\ InFlight(preq[r2]))
            => /\ preq[r1].outputPath # preq[r2].outputPath
               /\ InputPaths(preq[r1]) \cap InputPaths(preq[r2]) = {}

\* C7: a retrieval is only ever sent a completely rendered artifact, and a
\* failed render leaves no artifact of its own in the served directory.
C7_NoPartialArtifactServed ==
    /\ \A d \in DownloadIds : dreq[d].status = 200 => dreq[d].got = "complete"
    /\ \A r \in ProcessIds :
          (preq[r].phase = "failed" /\ preq[r].renders > 0)
              => ~(Exists(preq[r].outputPath) /\ fs[preq[r].outputPath].by = r
                     /\ fs[preq[r].outputPath].st = "partial")

\* C14: a /process request with a main track and no auxiliary clip is not
\* rejected: it compiles to the main track through an identity gain and a
\* trailing trim to mainDuration, and never errors.
C14_EmptyRequestAccepted ==
    \A r \in ProcessIds :
        (preq[r].main # NoFile /\ preq[r].clips = 0 /\ ~NotAList(preq[r].body))
            => preq[r].phase # "rejected"

\* C16: for every /process request the render is started at most once and never
\* again after it failed; a probe or render failure reaches the caller as a 500
\* response carrying the failure text; a success response is only sent after
\* the render has ended successfully.
C16_RenderOnceAndReported ==
    \A r \in ProcessIds :
        /\ preq[r].renders <= 1
        /\ preq[r].phase = "failed" => (preq[r].status = 500 /\ preq[r].error # "")
        /\ preq[r].status = 200 =>
              (preq[r].phase = "done" /\ preq[r].renders = 1 /\ preq[r].error = "")

\* a request whose render was started once and failed, answered 500 with its text
C16_Witness ==
    \E r \in ProcessIds :
        /\ preq[r].phase = "failed" /\ preq[r].renders = 1
        /\ preq[r].status = 500 /\ preq[r].error = "ffmpeg error"

\* C17: in the randomized server, when the main file or a short audio file does
\* not exist, processAudio rejects and does nothing more for the request: the
\* probe is not called, no plan is built, the render is never started.
C17_MissingFileStopsWork ==
    \A r \in ProcessIds :
        (variant = "random"
            /\ preq[r].error \in {"Main audio file not found", "Short audio file not found"})
            => (preq[r].phase = "failed" /\ preq[r].filter = <<>> /\ preq[r].renders = 0)

(***************************************************************************)
(* GET /download/:filename?mainAudio= of the copy that trims on retrieval: *)
(* src/unnamed/part_000:316-384.  Durations are in milliseconds.           *)
(***************************************************************************)
\* most retrieval requests
MaxRetrievals == 2
RetrievalIds == 1..MaxRetrievals

ArtifactName == FileName("a", 0, "aac")
MissingName == FileName("missing", 0, "aac")
ReferenceNames == {FileName("a", 0, "aac"), FileName("b", 0, "aac")}

\* the disk before the retrievals: a rendered artifact public/a.aac of 10 s,
\* 10.005 s or 12 s (or none), the main track uploads/a.aac of 10 s (or none),
\* and another upload uploads/b.aac of 12 s
ArtifactDurations == {10000, 10005, 12000}
InitialDisks ==
    { [p \in art \cup ref \cup {Path(uploadsDir, FileName("b", 0, "aac"))} |->
          IF p.dir = publicDir THEN File("complete", 0, {}, d)
          ELSE IF p.name.n = "a" THEN File("complete", 0, {}, 10000)
          ELSE File("complete", 0, {}, 12000)] :
        art \in {{}, {Path(publicDir, ArtifactName)}},
        ref \in {{}, {Path(uploadsDir, FileName("a", 0, "aac"))}},
        d \in ArtifactDurations }

\* a comparison that lets an artifact up to 10 ms longer pass untrimmed
NeedsTrimTolerant(originalDuration, referenceDuration) ==
    ~(originalDuration <= referenceDuration + 10)

\* src/unnamed/part_000:344: the artifact is trimmed unless
\* originalMetadata.duration <= mainMetadata.duration
NeedsTrim(originalDuration, referenceDuration) == ~(originalDuration <= referenceDuration)

\* a trim that writes over the artifact it reads
TrimmedInPlace(filename) == Path(publicDir, filename)

\* src/unnamed/part_000:350: path.join(outputDir, req.params.filename)
TrimmedFilePath(filename) == Path(outputDir, filename)

\* src/unnamed/part_000:351: the duration handed to trimAudio
TrimDuration(originalDuration, referenceDuration) == referenceDuration

\* the duration of what ffmpeg writes for setStartTime(start).setDuration(duration)
TrimmedLength(inputDuration, start, duration) ==
    IF inputDuration - start <= duration
    THEN (IF inputDuration - start < 0 THEN 0 ELSE inputDuration - start)
    ELSE duration

\* the handler up to its first await: src/unnamed/part_000:329-341.
\* Without ?mainAudio= path.join(uploadsDir, undefined) throws and the request
\* is never answered.
Retrieve(d) ==
    /\ MayArrive(dreq, d)
    /\ \E filename \in {ArtifactName, MissingName},
          mainAudio \in ReferenceNames \cup {MissingName, NoFile} :
          LET originalFilePath == Path(publicDir, filename)
              mainAudioPath == Path(uploadsDir, mainAudio)
              arrived == [dreq[d] EXCEPT !.filename = filename, !.mainAudio = mainAudio]
          IN dreq' = [dreq EXCEPT ![d] =
                IF mainAudio = NoFile
                THEN [arrived EXCEPT !.phase = "threw"]
                ELSE IF ~Exists(originalFilePath) \/ ~Exists(mainAudioPath)
                THEN [arrived EXCEPT !.phase = "done", !.status = 404,
                         !.body = "File not found",
                         !.missing = IF Exists(mainAudioPath) THEN "artifact"
                                     ELSE IF Exists(originalFilePath) THEN "reference"
                                     ELSE "both"]
                ELSE [arrived EXCEPT !.phase = "probing"]]
    /\ UNCHANGED <<variant, planVars, fs, now, preq>>

\* one of the two ffprobe calls fails: src/unnamed/part_000:365-370
RetrieveProbeError(d) ==
    /\ dreq[d].phase = "probing"
    /\ dreq' = [dreq EXCEPT ![d] =
                  [@ EXCEPT !.phase = "done", !.status = 500,
                            !.body = "Error processing audio file"]]
    /\ UNCHANGED <<variant, planVars, fs, now, preq>>

\* both durations are known: the artifact is sent as it is, or trimAudio is
\* called and ffmpeg started: src/unnamed/part_000:344-351 and 374-383
RetrieveProbed(d) ==
    /\ dreq[d].phase = "probing"
    /\ LET q == dreq[d]
           originalFilePath == Path(publicDir, q.filename)
           mainAudioPath == Path(uploadsDir, q.mainAudio)
           original == fs[originalFilePath].dur
           reference == fs[mainAudioPath].dur
           known == [q EXCEPT !.probed = TRUE, !.originalDuration = original,
                              !.referenceDuration = reference]
       IN /\ Exists(originalFilePath) /\ Exists(mainAudioPath)
          /\ dreq' = [dreq EXCEPT ![d] =
                IF NeedsTrim(original, reference)
                THEN [known EXCEPT !.phase = "trimming",
                         !.trimmedPath = TrimmedFilePath(q.filename),
                         !.trimInput = originalFilePath,
                         !.trimStart = 0,
                         !.trimTo = TrimDuration(original, reference)]
                ELSE [known EXCEPT !.phase = "done", !.status = 200,
                         !.sent = originalFilePath,
                         !.got = fs[originalFilePath].st,
                         !.gotDuration = fs[originalFilePath].dur]]
    /\ UNCHANGED <<variant, planVars, fs, now, preq>>

\* ffmpeg has opened the artifact and creates the trimmed file
TrimOpen(d) ==
    /\ dreq[d].phase = "trimming"
    /\ Exists(dreq[d].trimInput)
    /\ fs' = OpenForWrite(fs, dreq[d].trimmedPath, d)
    /\ dreq' = [dreq EXCEPT ![d] = [@ EXCEPT !.phase = "trimwriting"]]
    /\ UNCHANGED <<variant, planVars, now, preq>>

\* 'end' of trimAudio: the await returns and res.download of the trimmed file
\* begins: src/unnamed/part_000:351-353
TrimEnd(d) ==
    /\ dreq[d].phase = "trimwriting"
    /\ Exists(dreq[d].trimInput)
    /\ fs' = CloseAfterWrite(fs, dreq[d].trimmedPath, d,
                TrimmedLength(fs[dreq[d].trimInput].dur, dreq[d].trimStart, dreq[d].trimTo))
    /\ dreq' = [dreq EXCEPT ![d] = [@ EXCEPT !.phase = "sending"]]
    /\ UNCHANGED <<variant, planVars, now, preq>>

\* 'error' of trimAudio: the catch answers 500 and nothing is unlinked:
\* src/unnamed/part_000:365-370 and 381
TrimError(d) ==
    /\ dreq[d].phase \in {"trimming", "trimwriting"}
    /\ fs' = AbandonWrite(fs, dreq[d].trimmedPath, d)
    /\ dreq' = [dreq EXCEPT ![d] =
                  [@ EXCEPT !.phase = "done", !.status = 500,
                            !.body = "Error processing audio file"]]
    /\ UNCHANGED <<variant, planVars, now, preq>>

\* the callback of res.download without error, then fs.unlink:
\* src/unnamed/part_000:353-364
SendDone(d) ==
    /\ dreq[d].phase = "sending"
    /\ Exists(dreq[d].trimmedPath)
    /\ dreq' = [dreq EXCEPT ![d] =
                  [@ EXCEPT !.phase = "done", !.status = 200, !.sent = dreq[d].trimmedPath,
                            !.got = fs[dreq[d].trimmedPath].st,
                            !.gotDuration = fs[dreq[d].trimmedPath].dur]]
    /\ fs' = Unlink(fs, {dreq[d].trimmedPath})
    /\ UNCHANGED <<variant, planVars, now, preq>>

\* the callback of res.download with an error (the file is gone, the caller
\* went away), then fs.unlink: src/unnamed/part_000:353-364
SendError(d) ==
    /\ dreq[d].phase = "sending"
    /\ dreq' = [dreq EXCEPT ![d] =
                  [@ EXCEPT !.phase = "done", !.status = 500,
                            !.body = "Error during file download"]]
    /\ fs' = Unlink(fs, {dreq[d].trimmedPath})
    /\ UNCHANGED <<variant, planVars, now, preq>>

InitDownload ==
    /\ variant = "trimdl"
    /\ mainDuration = K(0)
    /\ clipCount = 0
    /\ backgroundAudioMetadata = MetadataList(<<>>)
    /\ filterComplex = <<>>
    /\ compiled = "no"
    /\ fs \in InitialDisks
    /\ now = 0
    /\ preq = <<>>
    /\ dreq = [d \in RetrievalIds |-> IdleDownload]

NextDownload ==
    \/ \E d \in RetrievalIds : Retrieve(d)
    \/ \E d \in RetrievalIds : RetrieveProbeError(d)
    \/ \E d \in RetrievalIds : RetrieveProbed(d)
    \/ \E d \in RetrievalIds : TrimOpen(d)
    \/ \E d \in RetrievalIds : TrimEnd(d)
    \/ \E d \in RetrievalIds : TrimError(d)
    \/ \E d \in RetrievalIds : SendDone(d)
    \/ \E d \in RetrievalIds : SendError(d)

SpecDownload == InitDownload /\ [][NextDownload]_vars

\* the request sends the canonical artifact and trims nothing
SentUnchanged(q) ==
    /\ q.trimmedPath = NoPath
    /\ q.status = 200
    /\ q.sent = Path(publicDir, q.filename)

\* the request trims the canonical artifact from offset 0 for `duration` into a
\* file of its own, and sends nothing but that file
TrimsTo(q, duration) ==
    /\ q.trimInput = Path(publicDir, q.filename)
    /\ q.trimStart = 0
    /\ q.trimTo = duration
    /\ q.trimmedPath \notin {NoPath, q.trimInput}
    /\ q.sent \in {NoPath, q.trimmedPath}

\* C5 (as the claim states it): with a tolerance of 10 ms, an artifact no longer
\* than the reference is sent unchanged, and a longer one is trimmed to the
\* reference duration from offset 0.
C5_TrimWithTolerance ==
    \A d \in RetrievalIds :
        dreq[d].probed =>
            IF dreq[d].originalDuration <= dreq[d].referenceDuration + 10
            THEN SentUnchanged(dreq[d])
            ELSE TrimsTo(dreq[d], dreq[d].referenceDuration)

\* C5 (amended): the comparison is exact.  An artifact with
\* artifactDuration <= referenceDuration is sent unchanged (never padded); any
\* longer one, 10.005 s against 10.0 s included, is trimmed from offset 0 for
\* exactly referenceDuration into a separate file, the only file then sent.
C5_ExactComparisonDecides ==
    \A d \in RetrievalIds :
        dreq[d].probed =>
            IF dreq[d].originalDuration <= dreq[d].referenceDuration
            THEN SentUnchanged(dreq[d])
            ELSE TrimsTo(dreq[d], dreq[d].referenceDuration)

\* a retrieval of the 10.005 s artifact against the 10 s reference has trimmed
\* and handed off a copy of 10 s
C5_Witness ==
    \E d \in RetrievalIds :
        /\ dreq[d].probed
        /\ dreq[d].originalDuration = 10005 /\ dreq[d].referenceDuration = 10000
        /\ dreq[d].phase = "done" /\ dreq[d].status = 200
        /\ dreq[d].sent = dreq[d].trimmedPath
        /\ dreq[d].gotDuration = 10000

\* C8: once no retrieval is in progress, no temporary trimmed artifact is left
\* on disk, whichever way each request ended.
C8_TempDeletedOnEveryExit ==
    (\A d \in RetrievalIds : dreq[d].phase \in {"idle", "done", "threw"})
        => \A p \in DOMAIN fs : p.dir # outputDir

\* the rendered artifacts in the served directory
PublicFiles == [p \in {q \in DOMAIN fs : q.dir = publicDir} |-> fs[p]]

\* C9: no step of a retrieval creates, changes or deletes a canonical artifact,
\* and the trimmed copy is never placed in the served directory.
C9_CanonicalUntouched ==
    [][/\ PublicFiles' = PublicFiles
       /\ \A d \in RetrievalIds : dreq'[d].trimmedPath.dir # publicDir]_vars

\* a retrieval has trimmed, handed off and deleted its copy, and the canonical
\* artifact is still there, complete
C9_Witness ==
    \E d \in RetrievalIds :
        /\ dreq[d].phase = "done" /\ dreq[d].status = 200
        /\ dreq[d].trimmedPath # NoPath /\ dreq[d].sent = dreq[d].trimmedPath
        /\ ~Exists(dreq[d].trimmedPath)
        /\ Exists(dreq[d].trimInput) /\ fs[dreq[d].trimInput].st = "complete"

\* C10: a retrieval that misses only the artifact and one that misses only the
\* reference track get different responses.
C10_DistinctNotFound ==
    \A d1, d2 \in RetrievalIds :
        (dreq[d1].missing = "artifact" /\ dreq[d2].missing = "reference")
            => <<dreq[d1].status, dreq[d1].body>> # <<dreq[d2].status, dreq[d2].body>>

\* C18: concurrent retrievals of one artifact that must trim each have their own
\* temporary trimmed artifact: while a request writes its temporary artifact or
\* hands it off, no other request's trim overwrites it and no other request's
\* cleanup deletes it.
C18_OwnTemporaryArtifact ==
    \A d \in RetrievalIds :
        /\ dreq[d].phase = "trimwriting" =>
              /\ Exists(dreq[d].trimmedPath)
              /\ fs[dreq[d].trimmedPath].by = d
              /\ fs[dreq[d].trimmedPath].writers = {d}
        /\ dreq[d].phase = "sending" =>
              /\ Exists(dreq[d].trimmedPath)
              /\ fs[dreq[d].trimmedPath].by = d
              /\ fs[dreq[d].trimmedPath].st = "complete"

====
